---- MODULE Spec2Model ----
(***************************************************************************)
(* A model of BacktestEngine (python/backtesting/backtest_engine.py): the  *)
(* walk-forward loop of run_backtest, the sizing and execution helpers and *)
(* the post-run metrics.                                                   *)
(*                                                                         *)
(* Numbers.  The engine computes in float64.  Money, prices, quantities    *)
(* and percentages are carried here as decimal fixed-point integers with   *)
(* Scale units per 1.0, every product and quotient rounded to the nearest  *)
(* unit where float64 rounds to the nearest double.  The Kelly fraction is *)
(* the one place where the rounding decides the outcome (the formula is an *)
(* exact 0 perturbed only by rounding), so it is computed in exact         *)
(* rational arithmetic, with NaN as a value of its own that follows the    *)
(* comparison rules of Python floats (every comparison with NaN is False). *)
(***************************************************************************)
EXTENDS Integers, Sequences, FiniteSets, TLC

(***************************************************************************)
(* Fixed-point arithmetic                                                  *)
(***************************************************************************)
Scale == 100 * 100

\* x dollars (or x as a plain number) in fixed-point units
Fx(x) == x * Scale

\* a * b, rounded to the nearest unit; the operands are split so that no
\* intermediate product leaves the 32-bit range when the result fits
FMul(a, b) ==
    LET qa == a \div Scale
        ra == a % Scale
        qb == b \div Scale
        rb == b % Scale
    IN  qa * qb * Scale + qa * rb + ra * qb + (ra * rb + Scale \div 2) \div Scale

\* 10 * r for 0 <= r < b, as <<quotient by b, remainder>>.  For a large b
\* the product would leave the 32-bit range: the quotient is then estimated
\* from b \div 10 and is at most one short.
Times10(r, b) ==
    IF b < 200000000
    THEN <<(10 * r) \div b, (10 * r) % b>>
    ELSE LET q0   == r \div (b \div 10 + 1)
             rem0 == 10 * (r - q0 * (b \div 10)) - q0 * (b % 10)
         IN  IF rem0 >= b THEN <<q0 + 1, rem0 - b>> ELSE <<q0, rem0>>

\* a / b for b > 0, rounded to the nearest unit, by long division
FDivPos(a, b) ==
    LET q0 == a \div b
        s1 == Times10(a % b, b)
        s2 == Times10(s1[2], b)
        s3 == Times10(s2[2], b)
        s4 == Times10(s3[2], b)
        up == IF 2 * s4[2] >= b THEN 1 ELSE 0
    IN  q0 * Scale + s1[1] * 1000 + s2[1] * 100 + s3[1] * 10 + s4[1] + up

\* a / b for b # 0
FDiv(a, b) == IF b < 0 THEN FDivPos(-a, -b) ELSE FDivPos(a, b)

\* Python's min(a, b) and max(a, b) on numbers that are not NaN
PyMin(a, b) == IF b < a THEN b ELSE a
PyMax(a, b) == IF b > a THEN b ELSE a

(***************************************************************************)
(* Floats of the Kelly computation: NaN, or an exact rational n/d, d > 0   *)
(***************************************************************************)
NaN == [nan |-> TRUE, n |-> 0, d |-> 1]

RECURSIVE Gcd(_, _)
Gcd(a, b) == IF b = 0 THEN a ELSE Gcd(b, a % b)

Abs(x) == IF x < 0 THEN -x ELSE x

\* the float n/d in lowest terms (d # 0)
Rat(n, d) ==
    LET g == Gcd(Abs(n), Abs(d))
        s == IF d < 0 THEN -1 ELSE 1
    IN  [nan |-> FALSE, n |-> s * (n \div g), d |-> s * (d \div g)]

RZero    == Rat(0, 1)
ROne     == Rat(1, 1)
RQuarter == Rat(1, 4)

RSub(a, b) == IF a.nan \/ b.nan THEN NaN ELSE Rat(a.n * b.d - b.n * a.d, a.d * b.d)
RMul(a, b) == IF a.nan \/ b.nan THEN NaN ELSE Rat(a.n * b.n, a.d * b.d)
\* a / b for b # 0
RDiv(a, b) == IF a.nan \/ b.nan THEN NaN ELSE Rat(a.n * b.d, a.d * b.n)

\* a < b, a <= b as Python compares floats: False when either is NaN
RLt(a, b) == ~a.nan /\ ~b.nan /\ a.n * b.d < b.n * a.d
RLe(a, b) == ~a.nan /\ ~b.nan /\ a.n * b.d <= b.n * a.d

\* Python's min(a, b) and max(a, b): the first argument unless the second
\* compares smaller (larger), so a NaN second argument is dropped
RMin(a, b) == IF RLt(b, a) THEN b ELSE a
RMax(a, b) == IF RLt(a, b) THEN b ELSE a

\* a rational float in fixed-point units, rounded to the nearest unit
RToFx(r) == (2 * r.n * Scale + r.d) \div (2 * r.d)

(***************************************************************************)
(* Bounds of the model                                                     *)
(***************************************************************************)
\* timestamps of the market table are drawn from 1..MaxTime
MaxTime == 2
\* signal rows per timestamp
MaxSignals == 2
\* calls of run_backtest on one engine
MaxRuns == 2
\* win probabilities of the Kelly check are the tenths -2/KellyGrid .. (KellyGrid+2)/KellyGrid
KellyGrid == 10
\* length of the value series of the drawdown check
MaxSeries == 3

(***************************************************************************)
(* BacktestConfig                                                          *)
(***************************************************************************)
\* BacktestConfig(): the dataclass defaults
DefaultConfig ==
    [starting_capital         |-> Fx(50000),
     max_position_size_pct    |-> Fx(2),
     daily_drawdown_limit_pct |-> Fx(8),
     min_liquidity            |-> Fx(2000),
     slippage_pct             |-> 200,
     gas_cost_per_trade       |-> 1500,
     execution_latency_ms     |-> 500,
     kelly_fraction           |-> 5000]

\* the configurations a run is checked under: the defaults; a capital at
\* which the 2% cap is exactly the $100 floor; a cap wide enough that the
\* Kelly size, not the cap, is the smaller; a Kelly multiplier small enough
\* that the Kelly size is under the floor while the cap is not
Configs ==
    { DefaultConfig,
      [DefaultConfig EXCEPT !.starting_capital = Fx(5000)],
      [DefaultConfig EXCEPT !.max_position_size_pct = Fx(20)],
      [DefaultConfig EXCEPT !.kelly_fraction = 50] }

(***************************************************************************)
(* Input rows                                                              *)
(***************************************************************************)
Markets == {"m1", "m2"}
Sides   == {"yes", "no"}

\* a row of strategy_signals at the timestamp being processed.  The column
\* liquidity is not one of the documented signal columns: has_liquidity
\* tells whether the row carries it.  fair_value is a float of the Kelly
\* computation; 3/5 stands for the probabilities strictly between 0 and 1,
\* NaN for a missing estimate.
SignalRows ==
    [market_id     : Markets,
     signal_type   : Sides,
     has_liquidity : {TRUE},
     liquidity     : {Fx(1000), Fx(5000)},
     edge_size     : {500},
     entry_price   : {5000},
     fair_value    : {Rat(3, 5), NaN},
     strategy      : {"s"}]
    \cup
    [market_id     : Markets,
     signal_type   : Sides,
     has_liquidity : {FALSE},
     liquidity     : {0},
     edge_size     : {500},
     entry_price   : {5000},
     fair_value    : {Rat(3, 5), NaN},
     strategy      : {"s"}]

\* the strategy_signals table can hold any signal row at any timestamp,
\* whether the market table has that timestamp or not
StrategySignals ==
    {[c \in DOMAIN row \cup {"timestamp"} |->
         IF c = "timestamp" THEN t ELSE row[c]] : row \in SignalRows, t \in 1..MaxTime}

\* strategy_signals[strategy_signals['timestamp'] == timestamp]
SignalsAt(t) == {row \in StrategySignals : row.timestamp = t}

\* the resolution column of a market row: None/NaN (unresolved), or a value
Resolutions == {"none", "yes", "no", "invalid"}

NoRow == [present |-> FALSE, yes_price |-> 0, no_price |-> 0,
          liquidity |-> 0, resolution |-> "none"]

\* the rows of historical_data at one timestamp: per market, no row or one
MarketRows ==
    {NoRow} \cup
    [present    : {TRUE},
     yes_price  : {6000},
     no_price   : {4000},
     liquidity  : {Fx(5000)},
     resolution : Resolutions]

\* variant: only "yes" and "no" count as a resolution
NotNaDecided(resolution) == resolution \in {"yes", "no"}

\* pd.notna(row.get('resolution'))
NotNa(resolution) == resolution # "none"

(***************************************************************************)
(* State                                                                   *)
(***************************************************************************)
VARIABLES
    config,                   \* self.config
    capital,                  \* self.capital
    trades,                   \* self.trades
    portfolio_value_history,  \* self.portfolio_value_history
    metrics,                  \* the 'metrics' entry of the last result bundle
    open_positions,           \* run_backtest's dict, in insertion order
    pc,                       \* where run_backtest stands
    runs,                     \* calls of run_backtest so far
    timestamp,                \* the loop variable of run_backtest
    visited,                  \* the timestamps of the market table taken so far
    nsignals,                 \* signal rows iterated at this timestamp
    signal,                   \* the loop variable of the signal loop
    market_data,              \* historical_data[timestamp == t], per market
    pending,                  \* the rest of list(open_positions.items())
    probe                     \* a direct call of a helper, and its result

vars == <<config, capital, trades, portfolio_value_history, metrics,
          open_positions, pc, runs, timestamp, visited, nsignals, signal,
          market_data, pending, probe>>

engine == <<capital, trades, portfolio_value_history, metrics, open_positions>>

(***************************************************************************)
(* The open-position dict: a sequence of positions with distinct           *)
(* market_id, in insertion order as a Python dict keeps them               *)
(***************************************************************************)
DictKeys(d) == {d[i].market_id : i \in 1..Len(d)}

\* variant: the assignment never replaces an entry
DictSetAppending(d, key, value) == Append(d, value)

\* d[key] = value: in place when the key is there, appended otherwise
DictSet(d, key, value) ==
    IF key \in DictKeys(d)
    THEN [i \in 1..Len(d) |-> IF d[i].market_id = key THEN value ELSE d[i]]
    ELSE Append(d, value)

\* del d[key]
DictDel(d, key) == SelectSeq(d, LAMBDA e : e.market_id # key)

(***************************************************************************)
(* Sizing and execution                                                    *)
(***************************************************************************)
\* the $100 minimum position
MinPosition == Fx(100)

\* signal.get('liquidity', 0)
SignalLiquidity(row) == IF row.has_liquidity THEN row.liquidity ELSE 0

\* variant: the numerator adds q instead of subtracting it
calculate_kelly_plus_q(edge, win_prob) ==
    IF RLe(win_prob, RZero) \/ RLe(ROne, win_prob)
    THEN RZero
    ELSE LET odds == RDiv(ROne, win_prob)
             b    == RSub(odds, ROne)
             q    == RSub(ROne, win_prob)
         IN  IF RLe(b, RZero)
             THEN RZero
             ELSE LET kelly == RDiv(RSub(RMul(b, win_prob), RSub(RZero, q)), b)
                  IN  RMax(RZero, RMin(RQuarter, kelly))

\* _calculate_kelly
calculate_kelly(edge, win_prob) ==
    IF RLe(win_prob, RZero) \/ RLe(ROne, win_prob)
    THEN RZero
    ELSE LET odds == RDiv(ROne, win_prob)
             b    == RSub(odds, ROne)
             q    == RSub(ROne, win_prob)
         IN  IF RLe(b, RZero)
             THEN RZero
             ELSE LET kelly == RDiv(RSub(RMul(b, win_prob), q), b)
                  IN  RMax(RZero, RMin(RQuarter, kelly))

\* capital * (max_position_size_pct / 100)
MaxPosition(cap) == FMul(cap, FDiv(config.max_position_size_pct, Fx(100)))

\* _can_enter_trade
can_enter_trade(row) ==
    IF SignalLiquidity(row) < config.min_liquidity
    THEN FALSE
    ELSE IF MaxPosition(capital) < MinPosition
         THEN FALSE
         ELSE TRUE

\* variant: the sized notional has no $100 floor
enter_position_unfloored(row, ts) ==
    LET kelly          == calculate_kelly(row.edge_size, row.fair_value)
        kelly_position == FMul(FMul(capital, RToFx(kelly)), config.kelly_fraction)
        max_position   == MaxPosition(capital)
        position_size  == PyMin(kelly_position, max_position)
        entry_price    == row.entry_price
        slippage       == FMul(entry_price, config.slippage_pct)
        actual_entry   == entry_price + slippage
        quantity       == FDiv(position_size, actual_entry)
    IN  IF position_size < 0
        THEN <<>>
        ELSE <<[entry_time  |-> ts,
                market_id   |-> row.market_id,
                strategy    |-> row.strategy,
                position    |-> row.signal_type,
                entry_price |-> actual_entry,
                quantity    |-> quantity,
                cost_basis  |-> position_size,
                slippage    |-> slippage]>>

\* _enter_position: <<>> for None, <<position>> otherwise
enter_position(row, ts) ==
    LET kelly          == calculate_kelly(row.edge_size, row.fair_value)
        kelly_position == FMul(FMul(capital, RToFx(kelly)), config.kelly_fraction)
        max_position   == MaxPosition(capital)
        position_size  == PyMin(kelly_position, max_position)
        entry_price    == row.entry_price
        slippage       == FMul(entry_price, config.slippage_pct)
        actual_entry   == entry_price + slippage
        quantity       == FDiv(position_size, actual_entry)
    IN  IF position_size < MinPosition
        THEN <<>>
        ELSE <<[entry_time  |-> ts,
                market_id   |-> row.market_id,
                strategy    |-> row.strategy,
                position    |-> row.signal_type,
                entry_price |-> actual_entry,
                quantity    |-> quantity,
                cost_basis  |-> position_size,
                slippage    |-> slippage]>>

\* variant: an unresolved close refers to the quoted price of the signal
ExitReferenceQuoted(position, resolution) ==
    IF resolution = "yes" THEN Fx(1)
    ELSE IF resolution = "no" THEN 0
    ELSE position.entry_price - position.slippage

\* the pre-slippage exit price of _close_position
ExitReference(position, resolution) ==
    IF resolution = "yes" THEN Fx(1)
    ELSE IF resolution = "no" THEN 0
    ELSE position.entry_price

\* variant: capital takes the pnl before the gas cost
close_position_gross(position, resolution, exit_time) ==
    LET exit_price    == ExitReference(position, resolution)
        exit_slippage == FMul(exit_price, config.slippage_pct)
        actual_exit   == PyMax(0, exit_price - exit_slippage)
        proceeds      == FMul(position.quantity, actual_exit)
        cost          == position.cost_basis
        gross_pnl     == proceeds - cost
        net_pnl       == gross_pnl - config.gas_cost_per_trade
        pnl_pct       == IF cost > 0 THEN FMul(FDiv(net_pnl, cost), Fx(100)) ELSE 0
    IN  [capital |-> capital + gross_pnl,
         trade   |-> [entry_time  |-> position.entry_time,
                      exit_time   |-> exit_time,
                      market_id   |-> position.market_id,
                      strategy    |-> position.strategy,
                      position    |-> position.position,
                      entry_price |-> position.entry_price,
                      exit_price  |-> actual_exit,
                      quantity    |-> position.quantity,
                      pnl         |-> net_pnl,
                      pnl_pct     |-> pnl_pct,
                      gas_cost    |-> config.gas_cost_per_trade,
                      slippage    |-> position.slippage + exit_slippage]]

\* _close_position: the Trade it returns and self.capital after it
close_position(position, resolution, exit_time) ==
    LET exit_price    == ExitReference(position, resolution)
        exit_slippage == FMul(exit_price, config.slippage_pct)
        actual_exit   == PyMax(0, exit_price - exit_slippage)
        proceeds      == FMul(position.quantity, actual_exit)
        cost          == position.cost_basis
        gross_pnl     == proceeds - cost
        net_pnl       == gross_pnl - config.gas_cost_per_trade
        pnl_pct       == IF cost > 0 THEN FMul(FDiv(net_pnl, cost), Fx(100)) ELSE 0
    IN  [capital |-> capital + net_pnl,
         trade   |-> [entry_time  |-> position.entry_time,
                      exit_time   |-> exit_time,
                      market_id   |-> position.market_id,
                      strategy    |-> position.strategy,
                      position    |-> position.position,
                      entry_price |-> position.entry_price,
                      exit_price  |-> actual_exit,
                      quantity    |-> position.quantity,
                      pnl         |-> net_pnl,
                      pnl_pct     |-> pnl_pct,
                      gas_cost    |-> config.gas_cost_per_trade,
                      slippage    |-> position.slippage + exit_slippage]]

\* variant: a "no" position is valued at the no_price of its market
calculate_unrealized_pnl_by_side(position, rows) ==
    LET market_row == rows[position.market_id]
        price      == IF position.position = "no"
                      THEN market_row.no_price
                      ELSE market_row.yes_price
    IN  IF ~market_row.present
        THEN 0
        ELSE FMul(position.quantity, price) - position.cost_basis

\* _calculate_unrealized_pnl, on the rows of the timestamp
calculate_unrealized_pnl(position, rows) ==
    LET market_row == rows[position.market_id]
    IN  IF ~market_row.present
        THEN 0
        ELSE FMul(position.quantity, market_row.yes_price) - position.cost_basis

RECURSIVE SumSeq(_)
SumSeq(s) == IF s = <<>> THEN 0 ELSE Head(s) + SumSeq(Tail(s))

(***************************************************************************)
(* Metrics                                                                 *)
(***************************************************************************)
\* the for-loop of _calculate_max_drawdown from values[i] on.  The values
\* are Python floats, as a snapshot holds them while no trade has closed
\* and no position is open (capital is then the float of the
\* configuration and the sum over no position is 0); their division by a
\* zero peak raises ZeroDivisionError.
RECURSIVE DrawdownLoop(_, _, _, _)
DrawdownLoop(values, i, peak, max_dd) ==
    IF i > Len(values)
    THEN [raised |-> FALSE, value |-> max_dd]
    ELSE LET value == values[i]
             peak1 == IF value > peak THEN value ELSE peak
         IN  IF peak1 = 0
             THEN [raised |-> TRUE, value |-> 0]
             ELSE LET dd == FDiv(peak1 - value, peak1)
                  IN  DrawdownLoop(values, i + 1, peak1,
                                   IF dd > max_dd THEN dd ELSE max_dd)

\* _calculate_max_drawdown over the portfolio_value column of the history
calculate_max_drawdown(values) ==
    IF values = <<>>
    THEN [raised |-> FALSE, value |-> 0]
    ELSE DrawdownLoop(values, 1, values[1], 0)

\* round(x, 2)
Round2(x) == ((x + 50) \div 100) * 100

Sign(x) == IF x > 0 THEN 1 ELSE IF x < 0 THEN -1 ELSE 0

Column(rows, f(_)) == [i \in 1..Len(rows) |-> f(rows[i])]
Range(s) == {s[i] : i \in 1..Len(s)}

\* returns - risk_free_rate / 252
Excess(returns) == [i \in 1..Len(returns) |-> returns[i] - FDiv(400, Fx(252))]

\* _calculate_sharpe and _calculate_sortino need a square root: the model
\* carries the sign of their result, which is 0 exactly when the code's
\* guard (an empty series, a zero deviation) returns 0.0
calculate_sharpe(returns) ==
    IF Len(returns) = 0 THEN 0
    ELSE IF Cardinality(Range(returns)) > 1
         THEN Sign(SumSeq(Excess(returns)))
         ELSE 0

calculate_sortino(returns) ==
    IF Len(returns) = 0 THEN 0
    ELSE LET downside_returns == SelectSeq(Excess(returns), LAMBDA x : x < 0)
         IN  IF Cardinality(Range(downside_returns)) > 1
             THEN Sign(SumSeq(Excess(returns)))
             ELSE 0

\* The locals of _calculate_metrics.  Counts are plain integers, amounts
\* and percentages fixed-point; annualized_return_pct needs a fractional
\* power and is carried by its sign, like the two ratios above.
TradePnl == Column(trades, LAMBDA t : t.pnl)
Wins     == SelectSeq(TradePnl, LAMBDA x : x > 0)
Losses   == SelectSeq(TradePnl, LAMBDA x : x < 0)

WinRate == IF Len(trades) > 0 THEN FDiv(Fx(Len(Wins)), Fx(Len(trades))) ELSE 0

TotalPnl == SumSeq(TradePnl)

\* timestamps count days
Days ==
    portfolio_value_history[Len(portfolio_value_history)].timestamp
        - portfolio_value_history[1].timestamp

AnnualizedReturn ==
    IF portfolio_value_history # <<>>
    THEN IF Days > 0 THEN Sign(capital - config.starting_capital) ELSE 0
    ELSE 0

Returns == Column(trades, LAMBDA t : t.pnl_pct)

PortfolioValues == Column(portfolio_value_history, LAMBDA h : h.portfolio_value)

AvgWin  == IF Len(Wins) > 0 THEN FDiv(SumSeq(Wins), Fx(Len(Wins))) ELSE 0
AvgLoss == IF Len(Losses) > 0 THEN FDiv(SumSeq(Losses), Fx(Len(Losses))) ELSE 0

ProfitFactor ==
    LET won  == FMul(AvgWin, Fx(Len(Wins)))
        lost == FMul(AvgLoss, Fx(Len(Losses)))
    IN  IF Len(Losses) > 0 /\ AvgLoss # 0 THEN Abs(FDiv(won, lost)) ELSE 0

TotalGas == SumSeq(Column(trades, LAMBDA t : t.gas_cost))

GasPctOfPnl ==
    IF TotalPnl # 0 THEN FMul(FDiv(TotalGas, Abs(TotalPnl)), Fx(100)) ELSE 0

\* the dict _calculate_metrics returns when there are trades
MetricsOfTrades ==
    [total_trades          |-> Len(trades),
     winning_trades        |-> Len(Wins),
     losing_trades         |-> Len(Losses),
     win_rate              |-> Round2(FMul(WinRate, Fx(100))),
     total_pnl             |-> Round2(TotalPnl),
     total_return_pct      |-> Round2(FMul(FDiv(TotalPnl, config.starting_capital), Fx(100))),
     annualized_return_pct |-> AnnualizedReturn,
     sharpe_ratio          |-> calculate_sharpe(Returns),
     sortino_ratio         |-> calculate_sortino(Returns),
     max_drawdown_pct      |-> Round2(FMul(calculate_max_drawdown(PortfolioValues).value, Fx(100))),
     profit_factor         |-> Round2(ProfitFactor),
     avg_win               |-> Round2(AvgWin),
     avg_loss              |-> Round2(AvgLoss),
     total_gas_costs       |-> Round2(TotalGas),
     gas_pct_of_pnl        |-> Round2(GasPctOfPnl),
     final_capital         |-> Round2(capital)]


\* {}: the metrics of a run without trades; also stands for no result yet
NoMetrics == [k \in {} |-> 0]

\* variant: no early return on an empty trade list
calculate_metrics_unguarded ==
    IF calculate_max_drawdown(PortfolioValues).raised
    THEN [raised |-> TRUE, value |-> NoMetrics]
    ELSE [raised |-> FALSE, value |-> MetricsOfTrades]

\* _calculate_metrics: raised tells that the division by a zero peak ended
\* it with ZeroDivisionError.  starting_capital, the other divisor without
\* a guard, is positive in every configuration of Configs.
calculate_metrics ==
    IF trades = <<>>
    THEN [raised |-> FALSE, value |-> NoMetrics]
    ELSE IF calculate_max_drawdown(PortfolioValues).raised
         THEN [raised |-> TRUE, value |-> NoMetrics]
         ELSE [raised |-> FALSE, value |-> MetricsOfTrades]

(***************************************************************************)
(* run_backtest                                                            *)
(***************************************************************************)
NoRows == [m \in Markets |-> NoRow]
NoProbe == [fn |-> "none"]
\* no signal row is being iterated
NoSignal == [market_id |-> "none"]

\* BacktestEngine(config), before any call
Constructed ==
    /\ trades = <<>>
    /\ portfolio_value_history = <<>>
    /\ metrics = NoMetrics
    /\ open_positions = <<>>
    /\ pc = "idle"
    /\ runs = 0
    /\ timestamp = 0
    /\ visited = {}
    /\ nsignals = 0
    /\ signal = NoSignal
    /\ market_data = NoRows
    /\ pending = <<>>

Init ==
    /\ config \in Configs
    /\ capital = config.starting_capital
    /\ Constructed
    /\ probe = NoProbe

\* variant: the reset leaves self.capital as the last run left it
StartRunKeepingCapital ==
    /\ pc \in {"idle", "done", "raised"}
    /\ runs < MaxRuns
    /\ runs' = runs + 1
    /\ trades' = <<>>
    /\ portfolio_value_history' = <<>>
    /\ capital' = capital
    /\ open_positions' = <<>>
    /\ pc' = "loop"
    /\ timestamp' = 0
    /\ visited' = {}
    /\ nsignals' = 0
    /\ signal' = NoSignal
    /\ market_data' = NoRows
    /\ pending' = <<>>
    /\ metrics' = NoMetrics
    /\ UNCHANGED <<config, probe>>

\* a call of run_backtest, up to the loop: the state is reset
StartRun ==
    /\ pc \in {"idle", "done", "raised"}
    /\ runs < MaxRuns
    /\ runs' = runs + 1
    /\ trades' = <<>>
    /\ portfolio_value_history' = <<>>
    /\ capital' = config.starting_capital
    /\ open_positions' = <<>>
    /\ pc' = "loop"
    /\ timestamp' = 0
    /\ visited' = {}
    /\ nsignals' = 0
    /\ signal' = NoSignal
    /\ market_data' = NoRows
    /\ pending' = <<>>
    /\ metrics' = NoMetrics
    /\ UNCHANGED <<config, probe>>

\* the loop takes the next larger timestamp of the market table
VisitTimestamp ==
    /\ pc = "loop"
    /\ \E t \in (timestamp + 1)..MaxTime : timestamp' = t
    /\ visited' = visited \cup {timestamp'}
    /\ nsignals' = 0
    /\ pc' = "entry"
    /\ UNCHANGED <<config, engine, runs, signal, market_data, pending, probe>>

\* what the body of the signal loop leaves in open_positions for one row
AfterSignal(row) ==
    IF can_enter_trade(row)
    THEN LET trade == enter_position(row, timestamp)
         IN  IF trade # <<>>
             THEN DictSet(open_positions, row.market_id, trade[1])
             ELSE open_positions
    ELSE open_positions

\* variant: the signal loop takes rows of any timestamp
EnterSignalAnyTime ==
    /\ pc = "entry"
    /\ nsignals < MaxSignals
    /\ signal' \in StrategySignals
    /\ open_positions' = AfterSignal(signal')
    /\ nsignals' = nsignals + 1
    /\ UNCHANGED <<config, capital, trades, portfolio_value_history, metrics,
                   pc, runs, timestamp, visited, market_data, pending, probe>>

\* one iteration of the signal loop, on the next signal row of the timestamp
EnterSignal ==
    /\ pc = "entry"
    /\ nsignals < MaxSignals
    /\ signal' \in SignalsAt(timestamp)
    /\ open_positions' = AfterSignal(signal')
    /\ nsignals' = nsignals + 1
    /\ UNCHANGED <<config, capital, trades, portfolio_value_history, metrics,
                   pc, runs, timestamp, visited, market_data, pending, probe>>

\* the signal rows are through: the market rows of the timestamp are
\* selected and the open positions listed
BeginUpdate ==
    /\ pc = "entry"
    /\ market_data' \in [Markets -> MarketRows]
    /\ pending' = open_positions
    /\ nsignals' = 0
    /\ signal' = NoSignal
    /\ pc' = "update"
    /\ UNCHANGED <<config, engine, runs, timestamp, visited, probe>>

\* one iteration of the position loop
UpdatePosition ==
    /\ pc = "update"
    /\ pending # <<>>
    /\ LET position   == Head(pending)
           market_row == market_data[position.market_id]
       IN  IF market_row.present /\ NotNa(market_row.resolution)
           THEN LET closed == close_position(position, market_row.resolution, timestamp)
                IN  /\ capital' = closed.capital
                    /\ trades' = Append(trades, closed.trade)
                    /\ open_positions' = DictDel(open_positions, position.market_id)
           ELSE UNCHANGED <<capital, trades, open_positions>>
    /\ pending' = Tail(pending)
    /\ UNCHANGED <<config, portfolio_value_history, metrics, pc, runs,
                   timestamp, visited, nsignals, signal, market_data, probe>>

\* variant: a timestamp without open position leaves no snapshot
RecordPortfolioValueWhenOpen ==
    /\ pc = "update"
    /\ pending = <<>>
    /\ LET unrealized_pnl ==
               SumSeq([i \in 1..Len(open_positions) |->
                          calculate_unrealized_pnl(open_positions[i], market_data)])
           total_value == capital + unrealized_pnl
       IN  portfolio_value_history' =
             IF open_positions = <<>> THEN portfolio_value_history ELSE
               Append(portfolio_value_history,
                      [timestamp       |-> timestamp,
                       portfolio_value |-> total_value,
                       capital         |-> capital,
                       unrealized_pnl  |-> unrealized_pnl,
                       open_positions  |-> Len(open_positions)])
    /\ market_data' = NoRows
    /\ pc' = "loop"
    /\ UNCHANGED <<config, capital, trades, metrics, open_positions, runs,
                   timestamp, visited, nsignals, signal, pending, probe>>

\* the snapshot of the timestamp
RecordPortfolioValue ==
    /\ pc = "update"
    /\ pending = <<>>
    /\ LET unrealized_pnl ==
               SumSeq([i \in 1..Len(open_positions) |->
                          calculate_unrealized_pnl(open_positions[i], market_data)])
           total_value == capital + unrealized_pnl
       IN  portfolio_value_history' =
               Append(portfolio_value_history,
                      [timestamp       |-> timestamp,
                       portfolio_value |-> total_value,
                       capital         |-> capital,
                       unrealized_pnl  |-> unrealized_pnl,
                       open_positions  |-> Len(open_positions)])
    /\ market_data' = NoRows
    /\ pc' = "loop"
    /\ UNCHANGED <<config, capital, trades, metrics, open_positions, runs,
                   timestamp, visited, nsignals, signal, pending, probe>>

\* the market table has no further timestamp: the metrics are computed
\* and the result bundle is returned
Finish ==
    /\ pc = "loop"
    /\ LET m == calculate_metrics
       IN  IF m.raised
           THEN pc' = "raised" /\ UNCHANGED metrics
           ELSE pc' = "done" /\ metrics' = m.value
    /\ UNCHANGED <<config, capital, trades, portfolio_value_history,
                   open_positions, runs, timestamp, visited, nsignals, signal,
                   market_data, pending, probe>>

Next ==
    \/ StartRun
    \/ VisitTimestamp
    \/ EnterSignal
    \/ BeginUpdate
    \/ UpdatePosition
    \/ RecordPortfolioValue
    \/ Finish

Spec == Init /\ [][Next]_vars

(***************************************************************************)
(* Direct calls of the helpers, on inputs drawn from small sets            *)
(***************************************************************************)
run == <<config, capital, trades, portfolio_value_history, metrics,
         open_positions, pc, runs, timestamp, visited, nsignals, signal,
         market_data, pending>>

\* win probabilities around and inside [0, 1], and NaN
KellyProbs == {Rat(n, KellyGrid) : n \in (-2)..(KellyGrid + 2)} \cup {NaN}
KellyEdges == {-500, 0, 500, 2000}

InitKelly ==
    /\ config = DefaultConfig
    /\ capital = config.starting_capital
    /\ Constructed
    /\ probe \in [fn       : {"calculate_kelly"},
                   edge     : KellyEdges,
                   win_prob : KellyProbs,
                   returned : {FALSE},
                   result   : {RZero}]

CallKelly ==
    /\ probe.fn = "calculate_kelly"
    /\ ~probe.returned
    /\ probe' = [probe EXCEPT !.returned = TRUE,
                              !.result = calculate_kelly(probe.edge, probe.win_prob)]
    /\ UNCHANGED run

NextKelly == CallKelly

SpecKelly == InitKelly /\ [][NextKelly]_vars

\* portfolio values: negative, zero and positive
SeriesValues == {Fx(-50), 0, Fx(60), Fx(80), Fx(100), Fx(120)}
Series == UNION {[1..n -> SeriesValues] : n \in 0..MaxSeries}

InitDrawdown ==
    /\ config = DefaultConfig
    /\ capital = config.starting_capital
    /\ Constructed
    /\ probe \in [fn       : {"calculate_max_drawdown"},
                   values   : Series,
                   returned : {FALSE},
                   raised   : {FALSE},
                   result   : {0}]

CallDrawdown ==
    /\ probe.fn = "calculate_max_drawdown"
    /\ ~probe.returned
    /\ LET r == calculate_max_drawdown(probe.values)
       IN  probe' = [probe EXCEPT !.returned = TRUE,
                                  !.raised = r.raised,
                                  !.result = r.value]
    /\ UNCHANGED run

NextDrawdown == CallDrawdown

SpecDrawdown == InitDrawdown /\ [][NextDrawdown]_vars

\* _can_enter_trade on a signal row, beside the liquidity of the row the
\* market table holds for the signal's market and timestamp
InitEntry ==
    /\ config \in Configs
    /\ capital \in {config.starting_capital, Fx(4999), Fx(400)}
    /\ Constructed
    /\ probe \in [fn               : {"can_enter_trade"},
                   row              : SignalRows,
                   market_liquidity : {Fx(1000), Fx(5000)},
                   returned         : {FALSE},
                   result           : {FALSE}]

CallCanEnter ==
    /\ probe.fn = "can_enter_trade"
    /\ ~probe.returned
    /\ probe' = [probe EXCEPT !.returned = TRUE,
                              !.result = can_enter_trade(probe.row)]
    /\ UNCHANGED run

NextEntry == CallCanEnter

SpecEntry == InitEntry /\ [][NextEntry]_vars

(***************************************************************************)
(* Claims                                                                  *)
(***************************************************************************)

\* C1: capital conservation.  In every state of a run, whatever prefix of
\* the timestamps has been processed, capital equals starting_capital plus
\* the sum of pnl over the Trade records appended so far; opening or
\* overwriting a position and taking a snapshot leave it alone.
CapitalConservation ==
    capital = config.starting_capital
              + SumSeq([i \in 1..Len(trades) |-> trades[i].pnl])

\* two trades are closed and capital has moved
CapitalConservationWitness ==
    /\ Len(trades) >= 2
    /\ capital # config.starting_capital
    /\ open_positions # <<>>

\* C3: one snapshot per timestamp of the market table, in ascending
\* order, whether or not anything traded: between two iterations of the
\* loop and at the end of the run the snapshots carry exactly the
\* timestamps taken from the table, each once, ascending.
SnapshotPerTimestamp ==
    pc \in {"loop", "done", "raised"} =>
        /\ Len(portfolio_value_history) = Cardinality(visited)
        /\ {portfolio_value_history[i].timestamp :
                i \in 1..Len(portfolio_value_history)} = visited
        /\ \A i \in 1..(Len(portfolio_value_history) - 1) :
               portfolio_value_history[i].timestamp
                   < portfolio_value_history[i + 1].timestamp

\* a finished run over two timestamps at which nothing was opened or closed
SnapshotPerTimestampWitness ==
    /\ pc = "done"
    /\ Len(portfolio_value_history) = 2
    /\ trades = <<>>
    /\ \A i \in 1..2 : portfolio_value_history[i].open_positions = 0

\* C10: the open-position map holds at most one position per market_id
\* after every step, and a signal that is eligible and sized for a market_id
\* with an open position puts its position in the place of the old one, all
\* other positions, the trade list and capital being left as they were.
PositionReplaced ==
    [][/\ \A i, j \in 1..Len(open_positions') :
             open_positions'[i].market_id = open_positions'[j].market_id => i = j
       /\ (/\ pc = "entry"
           /\ nsignals' = nsignals + 1
           /\ signal'.market_id \in DictKeys(open_positions)
           /\ can_enter_trade(signal')
           /\ enter_position(signal', timestamp) # <<>>)
          => /\ Len(open_positions') = Len(open_positions)
             /\ \A i \in 1..Len(open_positions) :
                    open_positions'[i] =
                        IF open_positions[i].market_id = signal'.market_id
                        THEN enter_position(signal', timestamp)[1]
                        ELSE open_positions[i]
             /\ trades' = trades
             /\ capital' = capital]_vars

\* a position opened at the second timestamp stands before one opened at
\* the first: it took the place of an older position of its market
PositionReplacedWitness ==
    \E i, j \in 1..Len(open_positions) :
        /\ i < j
        /\ open_positions[i].entry_time > open_positions[j].entry_time

\* C5: sizing bounds.  Every position a signal puts into the open-position
\* map has 100 <= cost_basis <= capital * max_position_size_pct / 100 with
\* the capital of that moment; a signal whose sized notional, the smaller
\* of capital * kelly * kelly_fraction and the cap, is below 100 opens
\* nothing, and the run goes on.
SizingBounds ==
    [][(pc = "entry" /\ nsignals' = nsignals + 1) =>
          LET cap      == FMul(capital, FDiv(config.max_position_size_pct, Fx(100)))
              kelly    == RToFx(calculate_kelly(signal'.edge_size, signal'.fair_value))
              notional == PyMin(FMul(FMul(capital, kelly), config.kelly_fraction), cap)
          IN  /\ \A i \in 1..Len(open_positions') :
                     (i > Len(open_positions) \/ open_positions'[i] # open_positions[i])
                         => /\ open_positions'[i].cost_basis >= Fx(100)
                            /\ open_positions'[i].cost_basis <= cap
              /\ notional < Fx(100) =>
                     /\ open_positions' = open_positions
                     /\ pc' = "entry"]_vars

\* the signal of the moment has opened a position as large as the cap
SizingBoundsWitness ==
    /\ pc = "entry"
    /\ nsignals >= 1
    /\ \E i \in 1..Len(open_positions) :
           /\ open_positions[i].market_id = signal.market_id
           /\ open_positions[i].entry_time = timestamp
           /\ open_positions[i].cost_basis
                  = FMul(capital, FDiv(config.max_position_size_pct, Fx(100)))

\* C6: a close takes its pre-slippage reference price from the resolution
\* alone: 1.0 for "yes", 0.0 for "no", the stored entry_price otherwise;
\* the Trade has exit_price = max(0, ref - ref * slippage_pct),
\* pnl = quantity * exit_price - cost_basis - gas_cost_per_trade and
\* pnl_pct = pnl / cost_basis * 100 (0 when cost_basis is 0).
CloseByResolution ==
    [][Len(trades') = Len(trades) + 1 =>
          LET position   == Head(pending)
              resolution == market_data[position.market_id].resolution
              trade      == trades'[Len(trades')]
              ref        == CASE resolution = "yes" -> Fx(1)
                              [] resolution = "no"  -> 0
                              [] OTHER              -> position.entry_price
          IN  /\ trade.market_id = position.market_id
              /\ trade.exit_price = PyMax(0, ref - FMul(ref, config.slippage_pct))
              /\ trade.pnl = FMul(position.quantity, trade.exit_price)
                                 - position.cost_basis - config.gas_cost_per_trade
              /\ trade.pnl_pct =
                     IF position.cost_basis = 0
                     THEN 0
                     ELSE FMul(FDiv(trade.pnl, position.cost_basis), Fx(100))]_vars

\* three trades: one closed on "yes", one on "no", one on "invalid"
CloseByResolutionWitness ==
    /\ \E i \in 1..Len(trades) : trades[i].exit_price = Fx(1) - FMul(Fx(1), config.slippage_pct)
    /\ \E i \in 1..Len(trades) : trades[i].exit_price = 0
    /\ \E i \in 1..Len(trades) :
           trades[i].exit_price
               = trades[i].entry_price - FMul(trades[i].entry_price, config.slippage_pct)

\* C2: end to end, with starting_capital = 50000, kelly_fraction = 0.5,
\* slippage_pct = 0.02, gas_cost_per_trade = 0.15 and the default
\* min_liquidity, the single signal at the first timestamp with
\* fair_value = 0.6, entry_price = 0.5 and liquidity = 5000 opens a
\* position at that timestamp, filled at 0.51 with
\* quantity = notional / 0.51 and a notional of at least 100; the "yes"
\* resolution of the next timestamp turns that position into the one Trade
\* of the run.
EndToEndOpens ==
    (/\ config = DefaultConfig
     /\ pc = "entry"
     /\ visited = {timestamp}
     /\ nsignals = 1
     /\ signal \in StrategySignals
     /\ signal.fair_value = Rat(3, 5)
     /\ signal.entry_price = Fx(1) \div 2
     /\ signal.has_liquidity
     /\ signal.liquidity = Fx(5000))
    => /\ Len(open_positions) = 1
       /\ open_positions[1].market_id = signal.market_id
       /\ open_positions[1].entry_time = timestamp
       /\ open_positions[1].entry_price = 5100
       /\ open_positions[1].cost_basis >= Fx(100)
       /\ open_positions[1].quantity = FDiv(open_positions[1].cost_basis, 5100)

\* C4: entry eligibility follows the liquidity of the market: a signal is
\* rejected when the liquidity of its market-table row is below
\* min_liquidity or when capital * max_position_size_pct / 100 is below
\* 100, and is eligible otherwise, whether or not the signal row has a
\* liquidity field of its own.
EligibleByMarketLiquidity ==
    (probe.fn = "can_enter_trade" /\ probe.returned) =>
        probe.result =
            (/\ probe.market_liquidity >= config.min_liquidity
             /\ FMul(capital, FDiv(config.max_position_size_pct, Fx(100))) >= Fx(100))

\* C7 as stated: a run that closes no trade returns a metrics map with the
\* documented fields at zero and final_capital = starting_capital.
NeutralMetricsFields ==
    (pc = "done" /\ trades = <<>>) =>
        /\ {"total_trades", "total_pnl", "win_rate", "sharpe_ratio",
            "sortino_ratio", "max_drawdown_pct", "profit_factor",
            "final_capital"} \subseteq DOMAIN metrics
        /\ metrics.total_trades = 0
        /\ metrics.total_pnl = 0
        /\ metrics.win_rate = 0
        /\ metrics.sharpe_ratio = 0
        /\ metrics.sortino_ratio = 0
        /\ metrics.profit_factor = 0
        /\ metrics.final_capital = config.starting_capital

\* C7: a run that closes no trade ends without an error and returns an
\* empty metrics map, which has none of the documented fields.
EmptyMetrics ==
    /\ (pc = "done" /\ trades = <<>>) => DOMAIN metrics = {}
    /\ pc = "raised" => trades # <<>>

\* a finished run that opened a position and closed none
EmptyMetricsWitness ==
    /\ pc = "done"
    /\ trades = <<>>
    /\ open_positions # <<>>
    /\ portfolio_value_history # <<>>

\* C8: _calculate_kelly returns exactly 0 when win_prob <= 0, when
\* win_prob >= 1 or when b = 1 / win_prob - 1 <= 0; for any other number it
\* returns (b * win_prob - (1 - win_prob)) / b clamped into [0, 0.25]; the
\* result is always within [0, 0.25] and the same for every edge.
KellyContract ==
    (probe.fn = "calculate_kelly" /\ probe.returned) =>
        LET p == probe.win_prob
            r == probe.result
            b == RSub(RDiv(ROne, p), ROne)
            f == RDiv(RSub(RMul(b, p), RSub(ROne, p)), b)
        IN  /\ ~r.nan
            /\ RLe(RZero, r)
            /\ RLe(r, RQuarter)
            /\ (RLe(p, RZero) \/ RLe(ROne, p)) => r = RZero
            /\ (RLt(RZero, p) /\ RLt(p, ROne)) =>
                   /\ RLt(RZero, b)
                   /\ r = (IF RLt(f, RZero) THEN RZero
                           ELSE IF RLt(RQuarter, f) THEN RQuarter ELSE f)
            /\ \A edge \in KellyEdges : r = calculate_kelly(edge, p)

\* the call was made with a win_prob strictly between 0 and 1
KellyContractWitness ==
    /\ probe.fn = "calculate_kelly"
    /\ probe.returned
    /\ RLt(RZero, probe.win_prob)
    /\ RLt(probe.win_prob, ROne)
    /\ probe.edge # 0

\* C9: the max-drawdown computation is guarded against division by zero:
\* for every series of snapshot values, the empty one and those whose
\* running peak is 0 or negative included, it returns a value and never
\* raises; for a non-decreasing series the value is 0.
DrawdownNeverRaises ==
    (probe.fn = "calculate_max_drawdown" /\ probe.returned) =>
        /\ ~probe.raised
        /\ (\A i \in 1..(Len(probe.values) - 1) :
                probe.values[i] <= probe.values[i + 1]) => probe.result = 0

\* C11: in the update phase of a timestamp an open position is closed if
\* and only if the market table has a row for the timestamp and the
\* position's market whose resolution is present.  The close appends one
\* Trade with exit_time = the timestamp and takes the position out of the
\* map; without such a row the position, the trade list and capital stay
\* as they are.  Trades already appended are never changed within a run.
CloseIffResolved ==
    [][/\ (pc = "update" /\ pending # <<>>) =>
             LET position == Head(pending)
                 row      == market_data[position.market_id]
             IN  IF row.present /\ row.resolution # "none"
                 THEN /\ Len(trades') = Len(trades) + 1
                      /\ trades'[Len(trades')].exit_time = timestamp
                      /\ trades'[Len(trades')].market_id = position.market_id
                      /\ trades'[Len(trades')].entry_time = position.entry_time
                      /\ position.market_id \notin DictKeys(open_positions')
                      /\ open_positions' =
                             SelectSeq(open_positions, LAMBDA e : e # position)
                 ELSE /\ open_positions' = open_positions
                      /\ trades' = trades
                      /\ capital' = capital
       /\ runs' = runs =>
             /\ Len(trades') >= Len(trades)
             /\ SubSeq(trades', 1, Len(trades)) = trades]_vars

\* the update phase of a timestamp is through: one position was closed on
\* its resolution, one with a row that has no resolution is still open
CloseIffResolvedWitness ==
    /\ pc = "update"
    /\ pending = <<>>
    /\ trades # <<>>
    /\ trades[Len(trades)].exit_time = timestamp
    /\ \E i \in 1..Len(open_positions) :
           /\ market_data[open_positions[i].market_id].present
           /\ market_data[open_positions[i].market_id].resolution = "none"

\* C12: signals are processed only at timestamps of the market table: the
\* signal being evaluated carries the timestamp of the iteration, which is
\* a timestamp of the market table, and every position and every trade was
\* entered at such a timestamp; a signal at any other timestamp is never
\* evaluated and opens nothing.
SignalsAtMarketTimestamps ==
    /\ signal # NoSignal =>
           /\ signal.timestamp = timestamp
           /\ signal.timestamp \in visited
    /\ \A i \in 1..Len(open_positions) : open_positions[i].entry_time \in visited
    /\ \A i \in 1..Len(trades) : trades[i].entry_time \in visited

\* the market table has no row at the first timestamp, at which the signal
\* table can hold rows; a signal of the second timestamp opened a position
SignalsAtMarketTimestampsWitness ==
    /\ pc = "entry"
    /\ 1 \notin visited
    /\ signal # NoSignal
    /\ \E i \in 1..Len(open_positions) :
           /\ open_positions[i].market_id = signal.market_id
           /\ open_positions[i].entry_time = signal.timestamp

\* C13: the outcome of a position ignores its side.  For a position of the
\* update phase and the position that differs from it in side only,
\* _close_position gives the same exit_price, pnl and capital for every resolution: "no"
\* exits at 0.0 and "yes" at 1.0 before slippage for either side; and
\* _calculate_unrealized_pnl values both at the yes_price of the market, so
\* the unrealized_pnl of a snapshot is the sum of
\* quantity * yes_price - cost_basis over the open positions with a row.
SideIgnored ==
    [][/\ (pc = "update" /\ pending # <<>>) =>
             LET p == Head(pending)
                 q == [p EXCEPT !.position = IF @ = "yes" THEN "no" ELSE "yes"]
             IN  /\ \A resolution \in Resolutions \ {"none"} :
                        LET cp == close_position(p, resolution, timestamp)
                            cq == close_position(q, resolution, timestamp)
                        IN  /\ cp.trade.exit_price = cq.trade.exit_price
                            /\ cp.trade.pnl = cq.trade.pnl
                            /\ cp.capital = cq.capital
                 /\ close_position(p, "no", timestamp).trade.exit_price = 0
                 /\ close_position(p, "yes", timestamp).trade.exit_price
                        = Fx(1) - FMul(Fx(1), config.slippage_pct)
                 /\ calculate_unrealized_pnl(p, market_data)
                        = calculate_unrealized_pnl(q, market_data)
       /\ Len(portfolio_value_history') = Len(portfolio_value_history) + 1 =>
             portfolio_value_history'[Len(portfolio_value_history')].unrealized_pnl
                 = SumSeq([i \in 1..Len(open_positions) |->
                              IF market_data[open_positions[i].market_id].present
                              THEN FMul(open_positions[i].quantity,
                                        market_data[open_positions[i].market_id].yes_price)
                                       - open_positions[i].cost_basis
                              ELSE 0])]_vars

\* a "no" position resolved "no" left at 0, a "no" position resolved "yes"
\* left at 1.0 less slippage, and the last snapshot values an open "no"
\* position
SideIgnoredWitness ==
    /\ \E i \in 1..Len(trades) :
           trades[i].position = "no" /\ trades[i].exit_price = 0
    /\ \E i \in 1..Len(trades) :
           /\ trades[i].position = "no"
           /\ trades[i].exit_price = Fx(1) - FMul(Fx(1), config.slippage_pct)
    /\ pc = "loop"
    /\ portfolio_value_history # <<>>
    /\ portfolio_value_history[Len(portfolio_value_history)].unrealized_pnl # 0
    /\ \A i \in 1..Len(open_positions) : open_positions[i].position = "no"

\* C14: run_backtest resets the run state at its start: every call on the
\* same engine, whatever the calls before it left behind, begins with
\* capital = starting_capital and an empty trade list, snapshot list and
\* open-position map, which is the state the first call begins with; what
\* a call returns is therefore a function of its inputs and the
\* configuration.
RunStartsFresh ==
    [][runs' = runs + 1 =>
          /\ capital' = config.starting_capital
          /\ trades' = <<>>
          /\ portfolio_value_history' = <<>>
          /\ open_positions' = <<>>
          /\ config' = config
          /\ <<pc', timestamp', visited', nsignals', signal', market_data',
               pending', metrics'>>
                 = <<"loop", 0, {}, 0, NoSignal, NoRows, <<>>, NoMetrics>>]_vars

\* a second call on the same engine is at its first timestamp, before any
\* signal, with the capital and the lists of a fresh engine
RunStartsFreshWitness ==
    /\ runs = 2
    /\ pc = "entry"
    /\ nsignals = 0
    /\ visited = {timestamp}
    /\ capital = config.starting_capital
    /\ trades = <<>>
    /\ portfolio_value_history = <<>>
    /\ open_positions = <<>>

====
